---- MODULE Spec2Model ----
(***************************************************************************)
(* Chat session orchestration layer of the Gen AI chatbot API:             *)
(* conversations and messages kept in a relational store, the chat routes  *)
(* (create / list / get / send_message / delete) acting on it, and the     *)
(* external generation backend called by send_message.                     *)
(*                                                                         *)
(* Requests run in parallel (several server workers on one database); a    *)
(* request interleaves with others between its database statements.        *)
(***************************************************************************)
EXTENDS Integers, Sequences, FiniteSets, Bags, TLC

(* ----------------------------- bounds ---------------------------------- *)
MaxConvs == 2      \* conversations ever created, where several are
MaxMsgs == 4       \* messages ever persisted, where one conversation is
MaxFewMsgs == 2    \* messages ever persisted, where several conversations are
MaxClock == 1      \* the last reading of the clock
MaxLate == 2       \* seconds past a token's expiry the clock is read at
MaxTurns == 2      \* turns of a history handed to the generation client
MaxChunks == 2     \* chunks a streaming call of the backend emits

UserIds == {1, 2}
ConvIds == 1..MaxConvs
Titles == {"trip"}
Texts == {"hi", "yo"}
ParTexts == {"hi"}     \* the texts of requests served in parallel
Replies == {"hello"}

Usernames == {"ana", "bob"}
Emails == {"ana@x.com", "bob@x.com"}
Passwords == {"pw123", "guess"}
Salts == {"s1", "s2"}

(* settings.ACCESS_TOKEN_EXPIRE_MINUTES and the token lifetime in seconds *)
ACCESS_TOKEN_EXPIRE_MINUTES == 60 * 24
(* the lifetime taken in the unit of the setting, without the conversion *)
TTLInMinutes == ACCESS_TOKEN_EXPIRE_MINUTES

TTL == ACCESS_TOKEN_EXPIRE_MINUTES * 60

(* settings.SECRET_KEY and a key that is not the process's *)
SECRET_KEY == "your-secret-key-change-in-production"
OtherKey == "somebody-else's-key"

(* the backend raising instead of returning text *)
BackendFailure == "<backend failure>"

(* --------------------------- error details ----------------------------- *)
NotFoundDetail == "Conversation not found"
GenerationDetail == "Error generating response"
DeletedDetail == "Conversation deleted successfully"
ConflictDetail == "User with this email or username already exists"
LoginDetail == "Invalid email or password"
InactiveDetail == "User account is inactive"
UserNotFoundDetail == "User not found"

VARIABLES
    users,          \* rows of table users (ids)
    conversations,  \* rows of table conversations
    messages,       \* rows of table messages
    nextUserId,     \* users.id sequence
    nextConvId,     \* conversations.id sequence
    nextMsgId,      \* messages.id sequence
    now,            \* datetime.utcnow()
    inflight,       \* bag of send_message requests between two statements
    resp,           \* the response emitted by the last step, NoResp if none
    calls,          \* per conversation, the send_message calls that ended, in order
    pairOf,         \* assistant message id -> id of the user message of its request
    profile,        \* users.id -> the other columns of the row
    registering,    \* bag of register requests past the existence check
    held,           \* the token in the client's session ({} when it has none)
    gen             \* the call of the generation client in progress

vars == <<users, conversations, messages, nextUserId, nextConvId, nextMsgId,
          now, inflight, resp, calls, pairOf, profile, registering, held,
          gen>>

auth == <<profile, registering, held>>

store == <<users, conversations, messages, nextUserId, nextConvId, nextMsgId>>

(* ------------------------------ helpers -------------------------------- *)
(* given: what the caller sent (register and login: the credentials; a     *)
(* chat route refusing a token: the token), kept with the response         *)
NoToken == [sub |-> "", exp |-> 0, key |-> "", iat |-> 0]

NoResp ==
    [op |-> "none", user |-> 0, conv |-> 0, owner |-> 0, kind |-> "none",
     detail |-> "", convs |-> <<>>, msgs |-> <<>>, text |-> "", msg_id |-> 0,
     token |-> NoToken, given |-> <<>>]

Response(op, u, c, owner, kind, detail) ==
    [NoResp EXCEPT !.op = op, !.user = u, !.conv = c, !.owner = owner,
                   !.kind = kind, !.detail = detail]

Range(s) == {s[i] : i \in 1..Len(s)}

(* the ownership query without its user_id filter *)
OwnedConversationAnyOwner(convs, cid, uid) ==
    {c \in convs : c.id = cid}

(* db.query(Conversation).filter(id == cid, user_id == uid).first() *)
OwnedConversation(convs, cid, uid) ==
    {c \in convs : c.id = cid /\ c.user_id = uid}

ConversationById(convs, cid) == {c \in convs : c.id = cid}

(* the owner of conversation cid as stored, 0 when there is no such row *)
OwnerOf(convs, cid) ==
    IF ConversationById(convs, cid) = {} THEN 0
    ELSE (CHOOSE c \in ConversationById(convs, cid) : TRUE).user_id

MessagesOf(msgs, cid) == {m \in msgs : m.conversation_id = cid}

(* Conversation.messages: ordered by created timestamp, ties by id *)
MessageBefore(a, b) ==
    \/ a.created_at < b.created_at
    \/ a.created_at = b.created_at /\ a.id <= b.id

RECURSIVE SortedMessages(_)
SortedMessages(S) ==
    IF S = {} THEN <<>>
    ELSE LET m == CHOOSE x \in S : \A y \in S : MessageBefore(x, y)
         IN  <<m>> \o SortedMessages(S \ {m})

OrderedMessages(msgs, cid) == SortedMessages(MessagesOf(msgs, cid))

(* ORDER BY messages.created_at: rows with equal timestamps come in any order *)
CreatedAtLessEq(a, b) == a.created_at <= b.created_at

RECURSIVE ByCreatedAt(_)
ByCreatedAt(S) ==
    IF S = {} THEN {<<>>}
    ELSE UNION {{<<m>> \o t : t \in ByCreatedAt(S \ {m})}
                   : m \in {x \in S : \A y \in S : CreatedAtLessEq(x, y)}}

(* ORDER BY conversations.updated_at DESC: equal timestamps in any order *)
UpdatedAtDesc(a, b) == a.updated_at >= b.updated_at

RECURSIVE ByUpdatedAtDesc(_)
ByUpdatedAtDesc(S) ==
    IF S = {} THEN {<<>>}
    ELSE UNION {{<<c>> \o t : t \in ByUpdatedAtDesc(S \ {c})}
                   : c \in {x \in S : \A y \in S : UpdatedAtDesc(x, y)}}

Turn(m) == [role |-> m.role, content |-> m.content]

Turns(s) == [i \in 1..Len(s) |-> Turn(s[i])]

(* ------------------------- generation client --------------------------- *)
(* Text is a sequence of characters.                                       *)
Lowers == <<"a", "b", "c", "d", "e", "f", "g", "h", "i", "j", "k", "l", "m",
            "n", "o", "p", "q", "r", "s", "t", "u", "v", "w", "x", "y", "z">>
Uppers == <<"A", "B", "C", "D", "E", "F", "G", "H", "I", "J", "K", "L", "M",
            "N", "O", "P", "Q", "R", "S", "T", "U", "V", "W", "X", "Y", "Z">>

(* str.upper() and str.lower() of one character *)
Upper(c) ==
    IF \E i \in DOMAIN Lowers : Lowers[i] = c
    THEN Uppers[CHOOSE i \in DOMAIN Lowers : Lowers[i] = c]
    ELSE c

Lower(c) ==
    IF \E i \in DOMAIN Uppers : Uppers[i] = c
    THEN Lowers[CHOOSE i \in DOMAIN Uppers : Uppers[i] = c]
    ELSE c

(* str.capitalize() left undone *)
CapitalizeAsIs(s) == s

(* str.capitalize(): the first character upper-cased, the others lower-cased *)
Capitalize(s) ==
    [i \in DOMAIN s |-> IF i = 1 THEN Upper(s[i]) ELSE Lower(s[i])]

(* the roles and contents of the turns handed to the client *)
UserRole == <<"u", "s", "e", "r">>
AssistantRole == <<"a", "s", "s", "i", "s", "t", "a", "n", "t">>
Roles == {UserRole, AssistantRole}
Contents == {<<"h", "i">>, <<"o", "k", "\n", "A", ":">>}

(* the dicts {"role": ..., "content": ...} and the lists of at most MaxTurns of them *)
Dicts == {[role |-> r, content |-> c] : r \in Roles, c \in Contents}
Histories == UNION {[1..n -> Dicts] : n \in 0..MaxTurns}

(* dict.get(key, default) *)
Get(msg, key, default) == IF key \in DOMAIN msg THEN msg[key] ELSE default

(* f"{role.capitalize()}: {content}" of one turn *)
FormatTurn(msg) ==
    Capitalize(Get(msg, "role", UserRole)) \o <<":", " ">> \o Get(msg, "content", <<>>)

(* sep.join(lines) *)
RECURSIVE Join(_, _)
Join(lines, sep) ==
    IF lines = <<>> THEN <<>>
    ELSE IF Len(lines) = 1 THEN lines[1]
    ELSE lines[1] \o sep \o Join(Tail(lines), sep)

(* the literal "\nAssistant:" *)
AssistantCue == <<"\n", "A", "s", "s", "i", "s", "t", "a", "n", "t", ":">>

(* what the backend does with one streaming call: the text of the chunks  *)
(* it emits, in order, and whether it then raises or ends                 *)
ChunkTexts == {<<>>, <<"a">>, <<"b", "c">>}
Plans ==
    {[chunks |-> cs, fails |-> f] :
        cs \in UNION {[1..n -> ChunkTexts] : n \in 0..MaxChunks}, f \in BOOLEAN}

StreamDetail == "Error streaming response"

(* no call of the client in progress *)
NoCall ==
    [status |-> "idle", messages |-> <<>>, formatted |-> <<>>, prompt |-> <<>>,
     chunks |-> <<>>, fails |-> FALSE, pos |-> 0, received |-> <<>>, error |-> ""]

(* ------------------------------- Init ---------------------------------- *)
Init ==
    /\ users = {}
    /\ conversations = {}
    /\ messages = {}
    /\ nextUserId = 1
    /\ nextConvId = 1
    /\ nextMsgId = 1
    /\ now = 0
    /\ inflight = EmptyBag
    /\ resp = NoResp
    /\ calls = [c \in ConvIds |-> <<>>]
    /\ pairOf = [m \in {} |-> 0]
    /\ profile = [u \in {} |-> 0]
    /\ registering = EmptyBag
    /\ held = {}
    /\ gen = NoCall

(* the clock advances *)
Tick ==
    /\ resp = NoResp
    /\ now < MaxClock
    /\ now' = now + 1
    /\ UNCHANGED <<store, auth, gen, inflight, resp, calls, pairOf>>

(* the response goes out to the caller *)
Return ==
    /\ resp # NoResp
    /\ resp' = NoResp
    /\ UNCHANGED <<store, now, auth, gen, inflight, calls, pairOf>>

(* ------------------------- credential service -------------------------- *)
(* hash_password: salted and one-way; two hashes of one password differ   *)
HashPassword(pw, salt) == [salt |-> salt, digest |-> <<salt, pw>>]

(* verify_password: the hash was made from this password *)
VerifyPassword(pw, h) == h.digest = <<h.salt, pw>>

(* create_access_token(data={"sub": str(user.id)}) at time t; iat is not   *)
(* part of the credential, it records when the token was issued            *)
CreateAccessToken(uid, t) ==
    [sub |-> ToString(uid), exp |-> t + TTL, key |-> SECRET_KEY, iat |-> t]

(* the user id a subject string stands for, 0 when it is no user id *)
SubjectId(sub) ==
    IF \E i \in UserIds : ToString(i) = sub
    THEN CHOOSE i \in UserIds : ToString(i) = sub
    ELSE 0

(* verify_token at time t *)
VerifyToken(tok, t) ==
    IF tok.key # SECRET_KEY \/ SubjectId(tok.sub) = 0
    THEN [kind |-> "Invalid", user |-> 0]
    ELSE IF t > tok.exp
    THEN [kind |-> "Expired", user |-> 0]
    ELSE [kind |-> "OK", user |-> SubjectId(tok.sub)]

(* ---------------------------- POST /auth/register ---------------------- *)
RegisterRequest(un, em, pw) == [username |-> un, email |-> em, password |-> pw]

(* db.query(User).filter((email == em) | (username == un)).first() *)
ExistingUser(un, em) ==
    {u \in users : profile[u].email = em \/ profile[u].username = un}

(* the existence check that opens the request *)
RegisterCheck(un, em, pw) ==
    /\ resp = NoResp
    /\ nextUserId + BagCardinality(registering) \in UserIds
    /\ IF ExistingUser(un, em) # {}
       THEN /\ resp' = [Response("register", 0, 0, 0, "Conflict", ConflictDetail)
                           EXCEPT !.given = <<un, em>>]
            /\ UNCHANGED registering
       ELSE /\ registering' = registering (+) SetToBag({RegisterRequest(un, em, pw)})
            /\ resp' = NoResp
    /\ UNCHANGED <<store, now, gen, profile, held, inflight, calls, pairOf>>

(* a users table without the unique constraints *)
NoUniqueViolation(r) == FALSE

(* users.username and users.email are unique: the engine refuses a row     *)
(* whose username or email another row has                                 *)
UniqueViolation(r) ==
    \E u \in users : profile[u].email = r.email \/ profile[u].username = r.username

UserRow(r, salt) ==
    [username |-> r.username, email |-> r.email,
     hashed_password |-> HashPassword(r.password, salt), is_active |-> TRUE]

(* hash_password; db.add(user); db.commit(); db.refresh(user); token; return *)
RegisterInsert(r, salt) ==
    /\ resp = NoResp
    /\ registering' = registering (-) SetToBag({r})
    /\ IF UniqueViolation(r)
       THEN /\ resp' = [Response("register", 0, 0, 0, "InternalError", "IntegrityError")
                           EXCEPT !.given = <<r.username, r.email>>]
            /\ UNCHANGED <<users, profile, nextUserId>>
       ELSE /\ users' = users \cup {nextUserId}
            /\ profile' = (nextUserId :> UserRow(r, salt)) @@ profile
            /\ nextUserId' = nextUserId + 1
            /\ resp' = [Response("register", nextUserId, 0, 0, "OK", "")
                           EXCEPT !.token = CreateAccessToken(nextUserId, now),
                                  !.given = <<r.username, r.email>>]
    /\ UNCHANGED <<conversations, messages, nextConvId, nextMsgId,
                   now, gen, held, inflight, calls, pairOf>>

(* ------------------------------ POST /auth/login ----------------------- *)
UsersByEmail(em) == {u \in users : profile[u].email = em}

(* the login that looks the user up and never verifies the password *)
LoginAnyPassword(em, pw) ==
    /\ resp = NoResp
    /\ IF UsersByEmail(em) = {}
       THEN resp' = [Response("login", 0, 0, 0, "AuthInvalid", LoginDetail)
                        EXCEPT !.given = <<em, pw>>]
       ELSE \E u \in UsersByEmail(em) :
              IF ~profile[u].is_active
              THEN resp' = [Response("login", 0, 0, 0, "Forbidden", InactiveDetail)
                               EXCEPT !.given = <<em, pw>>]
              ELSE resp' = [Response("login", u, 0, 0, "OK", "")
                               EXCEPT !.token = CreateAccessToken(u, now),
                                      !.given = <<em, pw>>]
    /\ UNCHANGED <<store, now, auth, gen, inflight, calls, pairOf>>

Login(em, pw) ==
    /\ resp = NoResp
    /\ IF \A u \in UsersByEmail(em) :
              ~VerifyPassword(pw, profile[u].hashed_password)
       THEN resp' = [Response("login", 0, 0, 0, "AuthInvalid", LoginDetail)
                        EXCEPT !.given = <<em, pw>>]
       ELSE \E u \in UsersByEmail(em) :
              /\ VerifyPassword(pw, profile[u].hashed_password)
              /\ IF ~profile[u].is_active
                 THEN resp' = [Response("login", 0, 0, 0, "Forbidden", InactiveDetail)
                                  EXCEPT !.given = <<em, pw>>]
                 ELSE resp' = [Response("login", u, 0, 0, "OK", "")
                                  EXCEPT !.token = CreateAccessToken(u, now),
                                         !.given = <<em, pw>>]
    /\ UNCHANGED <<store, now, auth, gen, inflight, calls, pairOf>>

(* an administrator clears a user's active flag *)
Deactivate(u) ==
    /\ resp = NoResp
    /\ profile[u].is_active
    /\ profile' = [profile EXCEPT ![u].is_active = FALSE]
    /\ UNCHANGED <<store, now, gen, registering, held, inflight, resp, calls, pairOf>>

(* the client keeps the token of a register or login response in its      *)
(* session, in place of the one it had                                     *)
Keep ==
    /\ resp.op \in {"register", "login"}
    /\ resp.kind = "OK"
    /\ held' = {resp.token}
    /\ resp' = NoResp
    /\ UNCHANGED <<store, now, gen, profile, registering, inflight, calls, pairOf>>

(* the i-th registrant of a run in which every registrant is new *)
Registrant(i) ==
    IF i = 1 THEN RegisterRequest("ana", "ana@x.com", "pw123")
    ELSE RegisterRequest("bob", "bob@x.com", "pw123")

Register ==
    LET r == Registrant(nextUserId + BagCardinality(registering))
    IN  RegisterCheck(r.username, r.email, r.password)

Registered == \E r \in BagToSet(registering) : RegisterInsert(r, "s1")


(* POST /chat/conversations *)
CreateConversation(u, title) ==
    /\ resp = NoResp
    /\ nextConvId <= MaxConvs
    /\ IF u \notin users
       THEN /\ resp' = Response("create", u, 0, 0, "NotFound", UserNotFoundDetail)
            /\ UNCHANGED <<conversations, nextConvId>>
       ELSE /\ conversations' = conversations \cup
                  {[id |-> nextConvId, user_id |-> u, title |-> title,
                    created_at |-> now, updated_at |-> now]}
            /\ nextConvId' = nextConvId + 1
            /\ resp' = [Response("create", u, nextConvId, u, "OK", "")
                           EXCEPT !.convs =
                               <<[id |-> nextConvId, user_id |-> u, title |-> title,
                                  created_at |-> now, updated_at |-> now]>>]
    /\ UNCHANGED <<users, messages, nextUserId, nextMsgId,
                   now, auth, gen, inflight, calls, pairOf>>

(* the list ordered by updated_at ascending *)
ListConversationsAscending(u) ==
    /\ resp.op \in {"none", "list"}
    /\ \E s \in ByUpdatedAtDesc({c \in conversations : c.user_id = u}) :
           resp' = [Response("list", u, 0, 0, "OK", "")
                       EXCEPT !.convs = [i \in 1..Len(s) |-> s[Len(s) + 1 - i]]]
    /\ UNCHANGED <<store, now, auth, gen, inflight, calls, pairOf>>

(* GET /chat/conversations *)
ListConversations(u) ==
    /\ resp.op \in {"none", "list"}
    /\ \E s \in ByUpdatedAtDesc({c \in conversations : c.user_id = u}) :
           resp' = [Response("list", u, 0, 0, "OK", "") EXCEPT !.convs = s]
    /\ UNCHANGED <<store, now, auth, gen, inflight, calls, pairOf>>

(* a 403 for a conversation that exists under another owner *)
OwnershipFailureForbidden(op, convs, u, cid) ==
    IF OwnerOf(convs, cid) = 0
    THEN Response(op, u, cid, 0, "NotFound", NotFoundDetail)
    ELSE Response(op, u, cid, OwnerOf(convs, cid), "Forbidden", "Not your conversation")

(* HTTPException(404, "Conversation not found"): the answer of get, send and *)
(* delete when the ownership query finds no row                            *)
OwnershipFailure(op, convs, u, cid) ==
    Response(op, u, cid, OwnerOf(convs, cid), "NotFound", NotFoundDetail)

(* what a caller gets for GET /chat/conversations/{cid} from the rows given *)
GetResponse(convs, msgs, u, cid) ==
    IF OwnedConversation(convs, cid, u) = {}
    THEN OwnershipFailure("get", convs, u, cid)
    ELSE [Response("get", u, cid, OwnerOf(convs, cid), "OK", "")
             EXCEPT !.convs = <<CHOOSE c \in OwnedConversation(convs, cid, u) : TRUE>>,
                    !.msgs = OrderedMessages(msgs, cid)]

(* GET /chat/conversations/{cid} *)
GetConversation(u, cid) ==
    /\ resp = NoResp
    /\ resp' = GetResponse(conversations, messages, u, cid)
    /\ UNCHANGED <<store, now, auth, gen, inflight, calls, pairOf>>

(* db.delete(conversation): the row and, by cascade, its messages *)
CascadeDelete(cid) ==
    /\ conversations' = conversations \ ConversationById(conversations, cid)
    /\ messages' = messages \ MessagesOf(messages, cid)

(* the delete that removes the conversation row and leaves its messages *)
DeleteConversationRowOnly(u, cid) ==
    /\ resp = NoResp
    /\ IF OwnedConversation(conversations, cid, u) = {}
       THEN /\ resp' = OwnershipFailure("delete", conversations, u, cid)
            /\ UNCHANGED conversations
       ELSE /\ conversations' = conversations \ ConversationById(conversations, cid)
            /\ resp' = Response("delete", u, cid, OwnerOf(conversations, cid),
                                "OK", DeletedDetail)
    /\ UNCHANGED <<users, messages, nextUserId, nextConvId, nextMsgId,
                   now, auth, gen, inflight, calls, pairOf>>

(* DELETE /chat/conversations/{cid} *)
DeleteConversation(u, cid) ==
    /\ resp = NoResp
    /\ IF OwnedConversation(conversations, cid, u) = {}
       THEN /\ resp' = OwnershipFailure("delete", conversations, u, cid)
            /\ UNCHANGED <<conversations, messages, calls, pairOf>>
       ELSE /\ CascadeDelete(cid)
            /\ resp' = Response("delete", u, cid, OwnerOf(conversations, cid),
                                "OK", DeletedDetail)
            /\ calls' = [calls EXCEPT ![cid] = <<>>]
            /\ pairOf' = [a \in {m.id : m \in messages'} \cap DOMAIN pairOf
                              |-> pairOf[a]]
    /\ UNCHANGED <<users, nextUserId, nextConvId, nextMsgId,
                   now, auth, gen, inflight>>


(* ------------------- POST /chat/conversations/{cid}/messages ----------- *)
(* cid is the conversation_id of the path; body and text are the fields    *)
(* conversation_id and message of the ChatRequest in the request body      *)
NewRequest(u, cid, text, body) ==
    [user |-> u, conv |-> cid, text |-> text, body |-> body, pc |-> "insert_user",
     umsg |-> 0, history |-> <<>>, reply |-> "", amsg |-> 0]

(* message rows the request will still insert *)
PendingInserts(r) ==
    IF r.pc = "insert_user" THEN 2
    ELSE IF r.pc \in {"refresh_user", "history", "generate", "insert_asst"} THEN 1
    ELSE 0

RECURSIVE BagPending(_, _)
BagPending(B, S) ==
    IF S = {} THEN 0
    ELSE LET r == CHOOSE x \in S : TRUE
         IN  B[r] * PendingInserts(r) + BagPending(B, S \ {r})

Forward(r, r2) == inflight' = (inflight (-) SetToBag({r})) (+) SetToBag({r2})

Drop(r) == inflight' = inflight (-) SetToBag({r})

(* an exception no handler catches: HTTP 500 *)
ServerError(r, detail) ==
    Response("send", r.user, r.conv, r.user, "InternalError", detail)

LogCall(r, outcome) ==
    calls' = IF ConversationById(conversations, r.conv) = {} THEN calls
             ELSE [calls EXCEPT ![r.conv] =
                       Append(@, [text |-> r.text, reply |-> outcome])]

(* the ownership check that opens the request *)
SendCheck(u, cid, text, body) ==
    /\ resp = NoResp
    /\ nextMsgId + BagPending(inflight, BagToSet(inflight)) + 2 <= MaxMsgs + 1
    /\ IF OwnedConversation(conversations, cid, u) = {}
       THEN /\ resp' = [OwnershipFailure("send", conversations, u, cid)
                           EXCEPT !.given = <<body>>]
            /\ UNCHANGED inflight
       ELSE /\ inflight' = inflight (+) SetToBag({NewRequest(u, cid, text, body)})
            /\ resp' = NoResp
    /\ UNCHANGED <<store, now, auth, gen, calls, pairOf>>

(* INSERT INTO messages: the row is refused when the engine checks the     *)
(* parent (a foreign key the engine enforces) and the parent is gone; an   *)
(* engine that does not check stores the row                               *)
InsertRefused(cid, enforced) ==
    enforced /\ ConversationById(conversations, cid) = {}

MessageRow(cid, role, content) ==
    [id |-> nextMsgId, conversation_id |-> cid, role |-> role,
     content |-> content, created_at |-> now]

(* the user message saved and the conversation's timestamp updated with it *)
SendInsertUserTouching(r) ==
    /\ resp = NoResp
    /\ r.pc = "insert_user"
    /\ messages' = messages \cup {MessageRow(r.conv, "user", r.text)}
    /\ nextMsgId' = nextMsgId + 1
    /\ conversations' =
           {IF c.id = r.conv THEN [c EXCEPT !.updated_at = now] ELSE c
               : c \in conversations}
    /\ Forward(r, [r EXCEPT !.pc = "refresh_user", !.umsg = nextMsgId])
    /\ UNCHANGED <<users, nextUserId, nextConvId, now, auth, gen, resp, calls, pairOf>>

(* the user message added to the session and never committed *)
SendInsertUserUncommitted(r) ==
    /\ resp = NoResp
    /\ r.pc = "insert_user"
    /\ nextMsgId' = nextMsgId + 1
    /\ Forward(r, [r EXCEPT !.pc = "history", !.umsg = nextMsgId])
    /\ UNCHANGED <<users, conversations, messages, nextUserId, nextConvId,
                   now, auth, gen, resp, calls, pairOf>>

(* the user message attached to the conversation_id of the request body *)
SendInsertUserBody(r) ==
    /\ resp = NoResp
    /\ r.pc = "insert_user"
    /\ \E enforced \in BOOLEAN :
       IF InsertRefused(r.body, enforced)
       THEN /\ Drop(r)
            /\ resp' = ServerError(r, "IntegrityError")
            /\ UNCHANGED <<messages, nextMsgId>>
       ELSE /\ messages' = messages \cup {MessageRow(r.body, "user", r.text)}
            /\ nextMsgId' = nextMsgId + 1
            /\ Forward(r, [r EXCEPT !.pc = "refresh_user", !.umsg = nextMsgId])
            /\ resp' = NoResp
    /\ UNCHANGED <<users, conversations, nextUserId, nextConvId,
                   now, auth, gen, calls, pairOf>>

(* db.add(user_message); db.commit() *)
SendInsertUser(r) ==
    /\ resp = NoResp
    /\ r.pc = "insert_user"
    /\ \E enforced \in BOOLEAN :
       IF InsertRefused(r.conv, enforced)
       THEN /\ Drop(r)
            /\ resp' = ServerError(r, "IntegrityError")
            /\ UNCHANGED <<messages, nextMsgId>>
       ELSE /\ messages' = messages \cup {MessageRow(r.conv, "user", r.text)}
            /\ nextMsgId' = nextMsgId + 1
            /\ Forward(r, [r EXCEPT !.pc = "refresh_user", !.umsg = nextMsgId])
            /\ resp' = NoResp
    /\ UNCHANGED <<users, conversations, nextUserId, nextConvId,
                   now, auth, gen, calls, pairOf>>

(* db.refresh(user_message) *)
SendRefreshUser(r) ==
    /\ resp = NoResp
    /\ r.pc = "refresh_user"
    /\ IF \A m \in messages : m.id # r.umsg
       THEN /\ Drop(r)
            /\ resp' = ServerError(r, "InvalidRequestError")
       ELSE /\ Forward(r, [r EXCEPT !.pc = "history"])
            /\ resp' = NoResp
    /\ UNCHANGED <<store, now, auth, gen, calls, pairOf>>

(* the history query *)
SendHistory(r) ==
    /\ resp = NoResp
    /\ r.pc = "history"
    /\ \E h \in ByCreatedAt(MessagesOf(messages, r.conv)) :
           Forward(r, [r EXCEPT !.pc = "generate", !.history = Turns(h)])
    /\ resp' = NoResp
    /\ UNCHANGED <<store, now, auth, gen, calls, pairOf>>

(* the generation step that takes the user message back when the backend fails *)
SendGenerateRollback(r) ==
    /\ resp = NoResp
    /\ r.pc = "generate"
    /\ \E out \in Replies \cup {BackendFailure} :
           IF out = BackendFailure
           THEN /\ Drop(r)
                /\ messages' = {m \in messages : m.id # r.umsg}
                /\ resp' = Response("send", r.user, r.conv, r.user,
                                    "GenerationError", GenerationDetail)
                /\ LogCall(r, BackendFailure)
           ELSE /\ Forward(r, [r EXCEPT !.pc = "insert_asst", !.reply = out,
                                        !.history = <<>>])
                /\ UNCHANGED <<messages, resp, calls>>
    /\ UNCHANGED <<users, conversations, nextUserId, nextConvId, nextMsgId,
                   now, auth, gen, pairOf>>

(* gen_ai_service.generate_response(message_history) *)
SendGenerate(r) ==
    /\ resp = NoResp
    /\ r.pc = "generate"
    /\ \E out \in Replies \cup {BackendFailure} :
           IF out = BackendFailure
           THEN /\ Drop(r)
                /\ resp' = Response("send", r.user, r.conv, r.user,
                                    "GenerationError", GenerationDetail)
                /\ LogCall(r, BackendFailure)
           ELSE /\ Forward(r, [r EXCEPT !.pc = "insert_asst", !.reply = out,
                                        !.history = <<>>])
                /\ resp' = NoResp
                /\ UNCHANGED calls
    /\ UNCHANGED <<store, now, auth, gen, pairOf>>

(* the assistant message saved in place of an equal reply already stored *)
SendInsertAssistantMerged(r) ==
    /\ resp = NoResp
    /\ r.pc = "insert_asst"
    /\ messages' =
           (messages \ {m \in MessagesOf(messages, r.conv) :
                            m.role = "assistant" /\ m.content = r.reply})
               \cup {MessageRow(r.conv, "assistant", r.reply)}
    /\ nextMsgId' = nextMsgId + 1
    /\ pairOf' = (nextMsgId :> r.umsg) @@ pairOf
    /\ Forward(r, [r EXCEPT !.pc = "refresh_asst", !.amsg = nextMsgId])
    /\ UNCHANGED <<users, conversations, nextUserId, nextConvId,
                   now, auth, gen, resp, calls>>

(* the assistant message saved with the user's text for content *)
SendInsertAssistantEcho(r) ==
    /\ resp = NoResp
    /\ r.pc = "insert_asst"
    /\ messages' = messages \cup {MessageRow(r.conv, "assistant", r.text)}
    /\ nextMsgId' = nextMsgId + 1
    /\ pairOf' = (nextMsgId :> r.umsg) @@ pairOf
    /\ Forward(r, [r EXCEPT !.pc = "refresh_asst", !.amsg = nextMsgId])
    /\ UNCHANGED <<users, conversations, nextUserId, nextConvId,
                   now, auth, gen, resp, calls>>

(* db.add(assistant_message); db.commit() *)
SendInsertAssistant(r) ==
    /\ resp = NoResp
    /\ r.pc = "insert_asst"
    /\ \E enforced \in BOOLEAN :
       IF InsertRefused(r.conv, enforced)
       THEN /\ Drop(r)
            /\ resp' = ServerError(r, "IntegrityError")
            /\ UNCHANGED <<messages, nextMsgId, pairOf>>
       ELSE /\ messages' = messages \cup {MessageRow(r.conv, "assistant", r.reply)}
            /\ nextMsgId' = nextMsgId + 1
            /\ pairOf' = (nextMsgId :> r.umsg) @@ pairOf
            /\ Forward(r, [r EXCEPT !.pc = "refresh_asst", !.amsg = nextMsgId])
            /\ resp' = NoResp
    /\ UNCHANGED <<users, conversations, nextUserId, nextConvId,
                   now, auth, gen, calls>>

(* db.refresh(assistant_message) *)
SendRefreshAssistant(r) ==
    /\ resp = NoResp
    /\ r.pc = "refresh_asst"
    /\ IF \A m \in messages : m.id # r.amsg
       THEN /\ Drop(r)
            /\ resp' = ServerError(r, "InvalidRequestError")
       ELSE /\ Forward(r, [r EXCEPT !.pc = "touch"])
            /\ resp' = NoResp
    /\ UNCHANGED <<store, now, auth, gen, calls, pairOf>>

(* the response that carries the id of the request's user message *)
SendTouchUserId(r) ==
    /\ resp = NoResp
    /\ r.pc = "touch"
    /\ Drop(r)
    /\ IF ConversationById(conversations, r.conv) = {}
       THEN /\ resp' = ServerError(r, "StaleDataError")
            /\ UNCHANGED <<conversations, calls>>
       ELSE /\ conversations' =
                  {IF c.id = r.conv THEN [c EXCEPT !.updated_at = now] ELSE c
                      : c \in conversations}
            /\ resp' = [Response("send", r.user, r.conv, r.user, "OK", "")
                           EXCEPT !.text = r.reply, !.msg_id = r.umsg]
            /\ LogCall(r, r.reply)
    /\ UNCHANGED <<users, messages, nextUserId, nextConvId, nextMsgId,
                   now, auth, gen, pairOf>>

(* the final commit that also retitles the conversation after the text sent *)
SendTouchRetitle(r) ==
    /\ resp = NoResp
    /\ r.pc = "touch"
    /\ Drop(r)
    /\ IF ConversationById(conversations, r.conv) = {}
       THEN /\ resp' = ServerError(r, "StaleDataError")
            /\ UNCHANGED <<conversations, calls>>
       ELSE /\ conversations' =
                  {IF c.id = r.conv
                   THEN [c EXCEPT !.updated_at = now, !.title = r.text] ELSE c
                      : c \in conversations}
            /\ resp' = [Response("send", r.user, r.conv, r.user, "OK", "")
                           EXCEPT !.text = r.reply, !.msg_id = r.amsg]
            /\ LogCall(r, r.reply)
    /\ UNCHANGED <<users, messages, nextUserId, nextConvId, nextMsgId,
                   now, auth, gen, pairOf>>

(* conversation.updated_at = datetime.utcnow(); db.commit(); return *)
SendTouch(r) ==
    /\ resp = NoResp
    /\ r.pc = "touch"
    /\ Drop(r)
    /\ IF ConversationById(conversations, r.conv) = {}
       THEN /\ resp' = ServerError(r, "StaleDataError")
            /\ UNCHANGED <<conversations, calls>>
       ELSE /\ conversations' =
                  {IF c.id = r.conv THEN [c EXCEPT !.updated_at = now] ELSE c
                      : c \in conversations}
            /\ resp' = [Response("send", r.user, r.conv, r.user, "OK", "")
                           EXCEPT !.text = r.reply, !.msg_id = r.amsg]
            /\ LogCall(r, r.reply)
    /\ UNCHANGED <<users, messages, nextUserId, nextConvId, nextMsgId,
                   now, auth, gen, pairOf>>

Requests == BagToSet(inflight)

(* a request between two statements runs its next statement *)
SendStep ==
    \/ \E r \in Requests : SendInsertUser(r)
    \/ \E r \in Requests : SendRefreshUser(r)
    \/ \E r \in Requests : SendHistory(r)
    \/ \E r \in Requests : SendGenerate(r)
    \/ \E r \in Requests : SendInsertAssistant(r)
    \/ \E r \in Requests : SendRefreshAssistant(r)
    \/ \E r \in Requests : SendTouch(r)

Idle == inflight = EmptyBag /\ registering = EmptyBag

(* several conversations, requests served one at a time; every registrant *)
(* is new; send_message requests are the client's, whose body repeats the *)
(* conversation id of the path                                            *)
Next ==
    \/ Return
    \/ Tick
    \/ Idle /\ Register
    \/ Registered
    \/ \E u \in users, title \in Titles : Idle /\ CreateConversation(u, title)
    \/ \E u \in users : Idle /\ ListConversations(u)
    \/ \E u \in users, cid \in ConvIds : Idle /\ GetConversation(u, cid)
    \/ \E u \in users, cid \in ConvIds : Idle /\ DeleteConversation(u, cid)
    \/ \E u \in users, cid \in ConvIds, text \in Texts :
           Idle /\ nextMsgId + 1 <= MaxFewMsgs /\ SendCheck(u, cid, text, cid)
    \/ SendStep

Spec == Init /\ [][Next]_vars

(* several conversations, requests served one at a time; the body of a     *)
(* send_message request names any conversation id                          *)
NextBody ==
    \/ Return
    \/ Idle /\ Register
    \/ Registered
    \/ \E u \in users, title \in Titles : Idle /\ CreateConversation(u, title)
    \/ \E u \in users, cid \in ConvIds : Idle /\ DeleteConversation(u, cid)
    \/ \E u \in users, cid \in ConvIds, text \in ParTexts, body \in ConvIds :
           Idle /\ nextMsgId + 1 <= MaxFewMsgs /\ SendCheck(u, cid, text, body)
    \/ SendStep

SpecBody == Init /\ [][NextBody]_vars

(* one conversation, requests served one at a time *)
NextSeq ==
    \/ Return
    \/ Tick
    \/ Idle /\ Register
    \/ Registered
    \/ \E u \in users, title \in Titles :
           Idle /\ nextConvId = 1 /\ CreateConversation(u, title)
    \/ \E u \in users : Idle /\ ListConversations(u)
    \/ \E u \in users, cid \in ConvIds : Idle /\ GetConversation(u, cid)
    \/ \E u \in users, cid \in ConvIds : Idle /\ DeleteConversation(u, cid)
    \/ \E u \in users, cid \in ConvIds, text \in Texts :
           Idle /\ SendCheck(u, cid, text, cid)
    \/ SendStep

SpecSeq == Init /\ [][NextSeq]_vars

(* one conversation, requests served in parallel: a request starts while   *)
(* others are between two of their statements                              *)
NextPar ==
    \/ Return
    \/ Tick
    \/ Idle /\ Register
    \/ Registered
    \/ \E u \in users, title \in Titles :
           nextConvId = 1 /\ CreateConversation(u, title)
    \/ \E u \in users : ListConversations(u)
    \/ \E u \in users, cid \in ConvIds : GetConversation(u, cid)
    \/ \E u \in users, cid \in ConvIds : DeleteConversation(u, cid)
    \/ \E u \in users, cid \in ConvIds, text \in ParTexts :
           SendCheck(u, cid, text, cid)
    \/ SendStep

SpecPar == Init /\ [][NextPar]_vars

(* ------------------- the routes behind Depends(verify_token) ----------- *)
ChatOps == {"create", "list", "get", "send", "delete"}

(* the instants the clock is read at, around the expiry of a token *)
Instants == {0, 1, TTL - 1, TTL, TTL + 1, TTL + MaxLate}

(* tokens signed with a key that is not the process's *)
Forged ==
    {[sub |-> ToString(u), exp |-> 2 * TTL + MaxLate, key |-> OtherKey, iat |-> 0]
        : u \in UserIds}

(* the tokens a request may carry *)
Presented == held \cup Forged

(* the token accepted on its subject and expiry, its signature not checked *)
AuthenticatedUnsigned(tok) == SubjectId(tok.sub) # 0 /\ now <= tok.exp

Authenticated(tok) == VerifyToken(tok, now).kind = "OK"

Caller(tok) == VerifyToken(tok, now).user

(* verify_token raises: the route's body does not run *)
AuthFailure(op, tok) ==
    /\ resp = NoResp
    /\ ~Authenticated(tok)
    /\ resp' = [Response(op, 0, 0, 0, "AuthError", VerifyToken(tok, now).kind)
                   EXCEPT !.given = <<tok>>]
    /\ UNCHANGED <<store, now, auth, gen, inflight, calls, pairOf>>

(* time passes *)
Sleep ==
    /\ resp = NoResp
    /\ \E t \in Instants : t > now /\ now' = t
    /\ UNCHANGED <<store, auth, gen, inflight, resp, calls, pairOf>>

(* registration, login and the chat routes called with tokens: one         *)
(* conversation and one send_message, requests served one at a time, every *)
(* registrant new                                                          *)
NextAuth ==
    \/ Return
    \/ Keep
    \/ Sleep
    \/ Idle /\ Register
    \/ Registered
    \/ \E em \in Emails, pw \in Passwords : Idle /\ Login(em, pw)
    \/ \E u \in users : Idle /\ Deactivate(u)
    \/ \E tok \in Presented, op \in ChatOps : Idle /\ AuthFailure(op, tok)
    \/ \E tok \in Presented, title \in Titles :
           /\ Idle /\ Authenticated(tok) /\ nextConvId = 1
           /\ CreateConversation(Caller(tok), title)
    \/ \E tok \in Presented :
           Idle /\ Authenticated(tok) /\ ListConversations(Caller(tok))
    \/ \E tok \in Presented, cid \in ConvIds :
           Idle /\ Authenticated(tok) /\ GetConversation(Caller(tok), cid)
    \/ \E tok \in Presented, cid \in ConvIds :
           Idle /\ Authenticated(tok) /\ DeleteConversation(Caller(tok), cid)
    \/ \E tok \in Presented, cid \in ConvIds, text \in ParTexts :
           /\ Idle /\ Authenticated(tok) /\ nextMsgId = 1
           /\ SendCheck(Caller(tok), cid, text, cid)
    \/ SendStep

SpecAuth == Init /\ [][NextAuth]_vars

(* registration and login, requests served in parallel *)
NextReg ==
    \/ Return
    \/ Tick
    \/ \E un \in Usernames, em \in Emails, pw \in Passwords : RegisterCheck(un, em, pw)
    \/ \E r \in BagToSet(registering), salt \in Salts : RegisterInsert(r, salt)
    \/ \E em \in Emails, pw \in Passwords : Login(em, pw)
    \/ \E u \in users : Deactivate(u)

SpecReg == Init /\ [][NextReg]_vars

(* ------------------- generation client: stream_response ---------------- *)
chat == <<store, now, auth, inflight, resp, calls, pairOf>>

(* stream_response(messages) is called and enters _format_messages_for_gemini *)
StreamResponse(h, plan) ==
    /\ gen.status = "idle"
    /\ gen' = [NoCall EXCEPT !.status = "format", !.messages = h,
                             !.chunks = plan.chunks, !.fails = plan.fails]
    /\ UNCHANGED chat

(* one turn of the loop of _format_messages_for_gemini *)
FormatAppend ==
    /\ gen.status = "format"
    /\ Len(gen.formatted) < Len(gen.messages)
    /\ gen' = [gen EXCEPT !.formatted =
                   Append(@, FormatTurn(gen.messages[Len(gen.formatted) + 1]))]
    /\ UNCHANGED chat

(* the return of _format_messages_for_gemini, and the prompt handed to      *)
(* model.generate_content(prompt, ..., stream=True)                        *)
FormatJoin ==
    /\ gen.status = "format"
    /\ Len(gen.formatted) = Len(gen.messages)
    /\ gen' = [gen EXCEPT !.prompt = Join(gen.formatted, <<"\n">>) \o AssistantCue,
                          !.status = "open"]
    /\ UNCHANGED chat

(* the streaming loop that gives up what it has yielded when the backend raises *)
StreamNextRetracting ==
    /\ gen.status = "open"
    /\ IF gen.pos < Len(gen.chunks)
       THEN LET text == gen.chunks[gen.pos + 1] IN
            gen' = [gen EXCEPT !.pos = @ + 1,
                               !.received = IF text # <<>> THEN Append(@, text) ELSE @]
       ELSE IF gen.fails
       THEN gen' = [gen EXCEPT !.status = "failed", !.error = StreamDetail,
                               !.received = <<>>]
       ELSE gen' = [gen EXCEPT !.status = "done"]
    /\ UNCHANGED chat

(* one turn of "for chunk in response: if chunk.text: yield chunk.text":   *)
(* the next chunk arrives and is yielded unless its text is empty, or the  *)
(* backend raises and the exception is raised again to the consumer, or    *)
(* the backend's iterator ends                                             *)
StreamNext ==
    /\ gen.status = "open"
    /\ IF gen.pos < Len(gen.chunks)
       THEN LET text == gen.chunks[gen.pos + 1] IN
            gen' = [gen EXCEPT !.pos = @ + 1,
                               !.received = IF text # <<>> THEN Append(@, text) ELSE @]
       ELSE IF gen.fails
       THEN gen' = [gen EXCEPT !.status = "failed", !.error = StreamDetail]
       ELSE gen' = [gen EXCEPT !.status = "done"]
    /\ UNCHANGED chat

(* the generator is finished: its loop ended or its exception was raised *)
StreamEnd ==
    /\ gen.status \in {"done", "failed"}
    /\ gen' = NoCall
    /\ UNCHANGED chat

NextGen ==
    \/ gen.status = "idle" /\ \E h \in Histories, plan \in Plans : StreamResponse(h, plan)
    \/ FormatAppend
    \/ FormatJoin
    \/ StreamNext
    \/ StreamEnd

SpecGen == Init /\ [][NextGen]_vars

TypeOK ==
    /\ users \subseteq UserIds
    /\ \A c \in conversations : c.id \in ConvIds /\ c.user_id \in users
    /\ \A m \in messages : m.id \in 1..MaxMsgs /\ m.role \in {"user", "assistant"}
    /\ now \in 0..MaxClock \cup Instants
    /\ DOMAIN profile = users
    /\ \A u \in users : profile[u].username \in Usernames /\ profile[u].email \in Emails
    /\ Cardinality(held) <= 1
    /\ BagCardinality(inflight) <= MaxMsgs


(* ------------------------------ claims --------------------------------- *)

(* C1. Ownership isolation: whenever get_conversation, send_message or     *)
(* delete_conversation is issued by a user on a conversation another user  *)
(* owns, the response is NotFound, the conversation is still there with    *)
(* its owner, and no send_message request of a user is ever past the       *)
(* ownership check of a conversation owned by somebody else.               *)
OwnershipIsolation ==
    /\ (/\ resp.op \in {"get", "send", "delete"}
        /\ resp.owner \notin {0, resp.user})
       => /\ resp.kind = "NotFound"
          /\ resp.msgs = <<>> /\ resp.convs = <<>> /\ resp.text = ""
          /\ OwnerOf(conversations, resp.conv) = resp.owner
    /\ \A r \in Requests : OwnerOf(conversations, r.conv) \in {0, r.user}

(* a user is refused the deletion of another user's conversation that holds messages *)
OwnershipIsolationWitness ==
    /\ resp.op = "delete"
    /\ resp.kind = "NotFound"
    /\ resp.owner \notin {0, resp.user}
    /\ MessagesOf(messages, resp.conv) # {}


(* what of a response reaches the caller *)
Visible(rsp) ==
    [kind |-> rsp.kind, detail |-> rsp.detail, convs |-> rsp.convs,
     msgs |-> rsp.msgs, text |-> rsp.text, msg_id |-> rsp.msg_id]

(* the conversations of u alone: the store with every other user's removed *)
OwnConversations(u) == {c \in conversations : c.user_id = u}

(* C7. NotFound indistinguishability: get_conversation, send_message and   *)
(* delete_conversation answer a conversation id that does not exist and    *)
(* one that another user owns with the same error kind and detail and      *)
(* nothing else, and the answer a caller gets for a conversation id is the *)
(* one it would get with the other users' conversations taken out of the   *)
(* store.                                                                  *)
NotFoundIndistinguishable ==
    /\ (/\ resp.op \in {"get", "send", "delete"}
        /\ resp.owner # resp.user)
       => Visible(resp) =
              Visible(Response(resp.op, resp.user, resp.conv, 0,
                               "NotFound", NotFoundDetail))
    /\ \A u \in users, cid \in ConvIds :
        /\ Visible(GetResponse(conversations, messages, u, cid))
               = Visible(GetResponse(OwnConversations(u), messages, u, cid))
        /\ \A op \in {"send", "delete"} :
               OwnedConversation(conversations, cid, u) = {}
                   => /\ OwnedConversation(OwnConversations(u), cid, u) = {}
                      /\ Visible(OwnershipFailure(op, conversations, u, cid))
                             = Visible(OwnershipFailure(op, OwnConversations(u), u, cid))

(* a user asks for another user's conversation, which holds messages, and *)
(* is told it is not found                                                 *)
NotFoundIndistinguishableWitness ==
    /\ resp.op = "get"
    /\ resp.kind = "NotFound"
    /\ resp.owner \notin {0, resp.user}
    /\ MessagesOf(messages, resp.conv) # {}


ConvExists(cid) == ConversationById(conversations, cid) # {}

(* C4. Cascade delete: right after a successful delete_conversation the    *)
(* conversation and every message with that parent are gone and the owner  *)
(* gets NotFound for it; a conversation never goes without every one of    *)
(* its messages going in the same step, no message goes while its          *)
(* conversation stays, and a conversation that is gone never comes back.   *)
CascadeDeleteAtomic ==
    /\ [](resp.op = "delete" /\ resp.kind = "OK"
            => /\ ~ConvExists(resp.conv)
               /\ MessagesOf(messages, resp.conv) = {}
               /\ GetResponse(conversations, messages, resp.user, resp.conv).kind
                      = "NotFound")
    /\ [][\A cid \in ConvIds :
            /\ (ConvExists(cid) /\ ~ConvExists(cid)')
                   => /\ MessagesOf(messages', cid) = {}
                      /\ resp'.op = "delete" /\ resp'.conv = cid
            /\ (MessagesOf(messages, cid) \ messages' # {})
                   => (~ConvExists(cid)' /\ MessagesOf(messages', cid) = {})
            /\ (cid < nextConvId /\ ~ConvExists(cid)) => ~ConvExists(cid)'
        ]_vars

(* the owner deleted a conversation that held messages while a             *)
(* send_message request on it was under way                                *)
CascadeDeleteWitness ==
    /\ resp.op = "delete"
    /\ resp.kind = "OK"
    /\ nextMsgId > 2
    /\ \E r \in Requests : r.conv = resp.conv

(* C5. No orphan messages: every persisted message's parent conversation   *)
(* exists and is owned by exactly one user.                                *)
NoOrphanMessages ==
    \A m \in messages :
        Cardinality({c.user_id : c \in ConversationById(conversations,
                                                        m.conversation_id)}) = 1

(* position of the message with id mid in the sequence s, 0 if absent *)
PositionOf(s, mid) ==
    IF \E i \in 1..Len(s) : s[i].id = mid
    THEN CHOOSE i \in 1..Len(s) : s[i].id = mid
    ELSE 0

(* C6. Alternation invariant, as the claim has it: in every conversation's *)
(* sequence every assistant message comes right after the user message     *)
(* persisted by the same send_message request.                             *)
AssistantRightAfterItsUser ==
    \A c \in conversations :
        LET s == OrderedMessages(messages, c.id)
        IN  \A i \in 1..Len(s) :
                s[i].role = "assistant"
                    => /\ i > 1
                       /\ s[i - 1].role = "user"
                       /\ s[i].id \in DOMAIN pairOf
                       /\ s[i - 1].id = pairOf[s[i].id]

(* C6, amended: in every conversation's sequence every assistant message   *)
(* comes after the user message persisted by the same request, and what   *)
(* lies between the two was written between the two writes (nothing, when  *)
(* no other request wrote to the conversation meanwhile); no assistant     *)
(* message at all is persisted before its request's user message.          *)
AssistantAfterItsUser ==
    /\ \A m \in messages :
           m.role = "assistant"
               => m.id \in DOMAIN pairOf /\ pairOf[m.id] \in 1..(m.id - 1)
    /\ \A c \in conversations :
        LET s == OrderedMessages(messages, c.id)
        IN  \A i \in 1..Len(s) :
                s[i].role = "assistant"
                    => LET j == PositionOf(s, pairOf[s[i].id])
                       IN  /\ j >= 1 /\ j < i
                           /\ s[j].role = "user"
                           /\ i - j - 1 =
                                  Cardinality({m \in MessagesOf(messages, c.id) :
                                                  m.id > s[j].id /\ m.id < s[i].id})

(* two requests on one conversation wrote their user messages before       *)
(* either wrote its reply                                                  *)
AssistantAfterItsUserWitness ==
    \E c \in conversations :
        LET s == OrderedMessages(messages, c.id)
        IN  /\ Len(s) = 4
            /\ s[1].role = "user" /\ s[2].role = "user"
            /\ s[3].role = "assistant" /\ s[4].role = "assistant"


Failed(call) == call.reply = BackendFailure

AllSucceeded(log) == \A i \in 1..Len(log) : ~Failed(log[i])

(* the turns the calls of a log leave behind: a user turn and a reply for  *)
(* a call that succeeded, the user turn alone for one that failed          *)
RECURSIVE TurnsOfCalls(_)
TurnsOfCalls(log) ==
    IF log = <<>> THEN <<>>
    ELSE (IF Failed(Head(log))
          THEN <<[role |-> "user", content |-> Head(log).text]>>
          ELSE <<[role |-> "user", content |-> Head(log).text],
                 [role |-> "assistant", content |-> Head(log).reply]>>)
         \o TurnsOfCalls(Tail(log))

(* C2. Ordering: after N send_message calls of the owner on a              *)
(* conversation, one after the other and all successful,                   *)
(* get_conversation returns exactly 2N messages; those at 2i-1 and 2i are  *)
(* the i-th call's user text and the i-th call's reply.                    *)
SequentialOrdering ==
    \A c \in conversations :
        (Idle /\ AllSucceeded(calls[c.id]))
            => LET got == GetResponse(conversations, messages, c.user_id, c.id)
                   N == Len(calls[c.id])
               IN  /\ got.kind = "OK"
                   /\ Len(got.msgs) = 2 * N
                   /\ \A i \in 1..N :
                        /\ got.msgs[2 * i - 1].role = "user"
                        /\ got.msgs[2 * i - 1].content = calls[c.id][i].text
                        /\ got.msgs[2 * i].role = "assistant"
                        /\ got.msgs[2 * i].content = calls[c.id][i].reply

(* two successful calls with different texts, all four messages carrying  *)
(* one timestamp                                                           *)
SequentialOrderingWitness ==
    \E c \in conversations :
        /\ Idle
        /\ Len(calls[c.id]) = 2
        /\ AllSucceeded(calls[c.id])
        /\ calls[c.id][1].text # calls[c.id][2].text
        /\ Cardinality(MessagesOf(messages, c.id)) = 4
        /\ \A m \in MessagesOf(messages, c.id) : m.created_at = c.created_at

(* C3. Partial-failure durability: a send_message whose generation fails   *)
(* answers GenerationError and leaves the call's user message as the last  *)
(* message of the conversation, with no reply to it; with requests served  *)
(* one after the other the conversation holds, in call order, the user     *)
(* turn and reply of every call that succeeded and the user turn alone of  *)
(* every call that failed; and no message of a conversation that stays is  *)
(* ever changed or removed.                                                *)
PartialFailureDurability ==
    /\ [](resp.op = "send" /\ resp.kind = "GenerationError"
            => /\ ConvExists(resp.conv)
               /\ calls[resp.conv] # <<>>
               /\ Failed(calls[resp.conv][Len(calls[resp.conv])])
               /\ LET s == OrderedMessages(messages, resp.conv)
                  IN  /\ s # <<>>
                      /\ s[Len(s)].role = "user"
                      /\ s[Len(s)].content =
                             calls[resp.conv][Len(calls[resp.conv])].text
                      /\ s[Len(s)].id \notin {pairOf[a] : a \in DOMAIN pairOf})
    /\ [](\A c \in conversations :
            (Idle /\ ~AllSucceeded(calls[c.id]))
                => Turns(OrderedMessages(messages, c.id)) = TurnsOfCalls(calls[c.id]))
    /\ [][\A m \in messages : ConvExists(m.conversation_id)' => m \in messages']_vars

(* a call failed and the next one on the same conversation succeeded *)
PartialFailureWitness ==
    \E c \in conversations :
        /\ Idle
        /\ Len(calls[c.id]) = 2
        /\ Failed(calls[c.id][1])
        /\ ~Failed(calls[c.id][2])
        /\ Len(OrderedMessages(messages, c.id)) = 3


SendCompleted == resp = NoResp /\ resp'.op = "send" /\ resp'.kind = "OK"

(* C8. A conversation's last-updated timestamp is written only by the step *)
(* in which a send_message request that has persisted its user message and *)
(* its assistant message completes, that step sets it to the current time, *)
(* changes nothing else in any conversation and ends the request; no other *)
(* step (a failed generation, create, list, get, delete) changes it.       *)
TouchOncePerCompletedSend ==
    [][/\ \A c \in conversations : \A d \in conversations' :
            (d.id = c.id /\ d.updated_at # c.updated_at)
                => SendCompleted /\ resp'.conv = c.id
       /\ SendCompleted
            => /\ \E c \in conversations : \E d \in conversations' :
                    /\ c.id = resp'.conv /\ d.id = resp'.conv
                    /\ d = [c EXCEPT !.updated_at = now]
                    /\ conversations' \ {d} = conversations \ {c}
               /\ BagCardinality(inflight') = BagCardinality(inflight) - 1
               /\ \E a \in MessagesOf(messages, resp'.conv) :
                    /\ a.id = resp'.msg_id /\ a.role = "assistant"
                    /\ \E m \in MessagesOf(messages, resp'.conv) :
                           m.id = pairOf[a.id] /\ m.role = "user"
               /\ messages' = messages
      ]_vars

(* a send_message completed on one of two conversations and moved its      *)
(* last-updated timestamp past its creation                                *)
TouchWitness ==
    /\ resp.op = "send"
    /\ resp.kind = "OK"
    /\ Cardinality(conversations) = 2
    /\ \E c \in conversations : c.id = resp.conv /\ c.updated_at > c.created_at

(* C9. list_conversations for user U returns exactly the conversations     *)
(* owned by U, each once, ordered by last-updated descending.              *)
ListOwnedByRecency ==
    resp.op = "list"
        => /\ resp.kind = "OK"
           /\ Range(resp.convs) = OwnConversations(resp.user)
           /\ Len(resp.convs) = Cardinality(OwnConversations(resp.user))
           /\ \A i, j \in 1..Len(resp.convs) :
                  i < j => resp.convs[i].updated_at >= resp.convs[j].updated_at

(* the older of a user's two conversations, updated later, is listed first *)
ListOwnedByRecencyWitness ==
    /\ resp.op = "list"
    /\ Len(resp.convs) = 2
    /\ resp.convs[1].id < resp.convs[2].id
    /\ resp.convs[1].updated_at > resp.convs[2].updated_at

(* C10. Idempotent read: a list_conversations call that follows another of *)
(* the same user with no write in between returns the same conversations   *)
(* in the same order.                                                      *)
ListIdempotent ==
    [][(resp.op = "list" /\ resp'.op = "list" /\ resp'.user = resp.user)
           => resp'.convs = resp.convs]_vars


(* C11. A register request whose username or email an existing user holds *)
(* ends with Conflict and creates no user; any other register request      *)
(* creates exactly one user, with the username and email given, and        *)
(* returns that user's id and a token whose subject is that id.            *)
RegisterContract ==
    [][(resp = NoResp /\ resp'.op = "register")
          => IF \E u \in users : \/ profile[u].username = resp'.given[1]
                                 \/ profile[u].email = resp'.given[2]
             THEN /\ resp'.kind = "Conflict"
                  /\ users' = users /\ profile' = profile
             ELSE /\ resp'.kind = "OK"
                  /\ resp'.user \notin users
                  /\ users' = users \cup {resp'.user}
                  /\ profile'[resp'.user].username = resp'.given[1]
                  /\ profile'[resp'.user].email = resp'.given[2]
                  /\ \A u \in users : profile'[u] = profile[u]
                  /\ VerifyToken(resp'.token, now) = [kind |-> "OK", user |-> resp'.user]
      ]_vars


(* a user id that references an active user *)
ActiveUser(u) == u \in users /\ profile[u].is_active

(* C12. create_conversation called for a user id that does not reference   *)
(* an active user (no such user, or active flag false) fails with NotFound *)
(* and creates no conversation; otherwise it creates one conversation      *)
(* owned by that user with created and last-updated both the current time. *)
CreateContract ==
    [][(resp = NoResp /\ resp'.op = "create" /\ resp'.kind # "AuthError")
          => IF ~ActiveUser(resp'.user)
             THEN resp'.kind = "NotFound" /\ conversations' = conversations
             ELSE /\ resp'.kind = "OK"
                  /\ \E c \in conversations' :
                        /\ c \notin conversations
                        /\ conversations' = conversations \cup {c}
                        /\ c.id = resp'.conv
                        /\ c.user_id = resp'.user
                        /\ c.created_at = now /\ c.updated_at = now
      ]_vars


(* the users registered under the email given whose stored hash the        *)
(* password given verifies against                                         *)
Verified(given) ==
    {u \in UsersByEmail(given[1]) :
        VerifyPassword(given[2], profile[u].hashed_password)}

(* C13 as stated. login returns a token and the id of the user registered  *)
(* under the email given when the password verifies against that user's    *)
(* stored hash; every failing login fails with AuthError::Invalid and      *)
(* changes no state.                                                       *)
LoginSingleError ==
    [][(resp = NoResp /\ resp'.op = "login")
          => /\ Verified(resp'.given) # {}
                  => /\ resp'.kind = "OK"
                     /\ resp'.user \in Verified(resp'.given)
                     /\ VerifyToken(resp'.token, now) =
                            [kind |-> "OK", user |-> resp'.user]
             /\ resp'.kind # "OK"
                  => resp'.kind = "AuthInvalid" /\ UNCHANGED <<store, auth>>
      ]_vars

(* C13 as amended. login returns a token and the id of the user registered *)
(* under the email given when the password verifies against that user's    *)
(* stored hash and the user is active; it fails with AuthError::Invalid    *)
(* when no user has the email or the password does not verify, and with a  *)
(* separate inactive-account error when the password verifies and the      *)
(* user's active flag is false; a failing login changes no state.          *)
LoginContract ==
    [][(resp = NoResp /\ resp'.op = "login")
          => /\ IF Verified(resp'.given) = {}
                THEN resp'.kind = "AuthInvalid"
                ELSE \E u \in Verified(resp'.given) :
                        IF profile[u].is_active
                        THEN /\ resp'.kind = "OK"
                             /\ resp'.user = u
                             /\ VerifyToken(resp'.token, now) =
                                    [kind |-> "OK", user |-> u]
                        ELSE resp'.kind = "Forbidden"
             /\ resp'.kind # "OK" => resp'.token = NoToken
             /\ UNCHANGED <<store, auth>>
      ]_vars

(* a login with the right password of a deactivated user is refused as     *)
(* inactive while another user is registered                               *)
LoginContractWitness ==
    /\ resp.op = "login"
    /\ resp.kind = "Forbidden"
    /\ Verified(resp.given) # {}
    /\ Cardinality(users) = 2


(* C14. Token lifecycle, with a lifetime of 24 hours: a token issued at    *)
(* time T for user U verifies as U at every time up to T + 24h - 1s and    *)
(* fails with Expired from T + 24h + 1s on; a token signed with another    *)
(* secret fails with Invalid at every time; the tokens that the chat       *)
(* routes refuse are refused with exactly these kinds, and a register or   *)
(* login response carries a token issued now for the user it names.        *)
TokenLifecycle ==
    /\ \A tok \in held :
          /\ now <= tok.iat + 24 * 60 * 60 - 1
                => /\ VerifyToken(tok, now).kind = "OK"
                   /\ ToString(VerifyToken(tok, now).user) = tok.sub
          /\ now >= tok.iat + 24 * 60 * 60 + 1
                => VerifyToken(tok, now).kind = "Expired"
    /\ \A tok \in Forged, t \in Instants : VerifyToken(tok, t).kind = "Invalid"
    /\ (resp.op \in {"register", "login"} /\ resp.kind = "OK")
          => /\ resp.token.iat = now
             /\ VerifyToken(resp.token, now) = [kind |-> "OK", user |-> resp.user]
    /\ resp.kind = "AuthError"
          => LET tok == resp.given[1]
             IN  IF tok.key # SECRET_KEY
                 THEN resp.detail = "Invalid"
                 ELSE /\ resp.detail = "Expired"
                      /\ now > tok.iat + 24 * 60 * 60

(* a chat route refuses as expired, one second past its 24 hours, a token  *)
(* that a user was issued at registration                                  *)
TokenLifecycleWitness ==
    /\ resp.kind = "AuthError"
    /\ resp.detail = "Expired"
    /\ resp.given[1] \in held
    /\ now = resp.given[1].iat + 24 * 60 * 60 + 1
    /\ SubjectId(resp.given[1].sub) \in users


(* the users the client's token verifies as *)
ValidCallers == {Caller(tok) : tok \in {t \in held : Authenticated(t)}}

(* C15. A chat route called with a token that fails verification answers   *)
(* AuthError, shows nothing of the store and leaves users, conversations   *)
(* and messages unchanged: every step that answers AuthError carries a     *)
(* token that does not verify and changes no row, and every chat route     *)
(* that gets as far as its body (answers anything else, or starts a        *)
(* send_message request, or changes a conversation) was called with a      *)
(* token that verifies as the user it acts for.                            *)
AuthErrorFirst ==
    [][/\ (resp = NoResp /\ resp'.kind = "AuthError")
            => /\ resp'.op \in ChatOps
               /\ ~Authenticated(resp'.given[1])
               /\ UNCHANGED <<store, auth, inflight>>
               /\ resp'.user = 0 /\ resp'.owner = 0 /\ resp'.convs = <<>>
               /\ resp'.msgs = <<>> /\ resp'.text = "" /\ resp'.msg_id = 0
       /\ (/\ resp = NoResp
           /\ resp'.op \in ChatOps \ {"send"}
           /\ resp'.kind # "AuthError")
            => resp'.user \in ValidCallers
       /\ \A r \in BagToSet(inflight') :
            (CopiesIn(r, inflight') > CopiesIn(r, inflight) /\ r.pc = "insert_user")
                => r.user \in ValidCallers
       /\ (inflight = EmptyBag /\ conversations' # conversations)
            => resp'.user \in ValidCallers
      ]_vars

(* delete_conversation called with a forged token naming the owner of a    *)
(* conversation that holds messages is refused                             *)
AuthErrorFirstWitness ==
    /\ resp.kind = "AuthError"
    /\ resp.op = "delete"
    /\ resp.given[1] \in Forged
    /\ \E c \in conversations :
          /\ ToString(c.user_id) = resp.given[1].sub
          /\ MessagesOf(messages, c.id) # {}


(* C16. Immutability: in every step, a message that stays persisted keeps  *)
(* its role, content, parent conversation and created timestamp, and a     *)
(* conversation that stays keeps its id, owner, title and created          *)
(* timestamp; last-updated is the only field a step modifies. Ids name one *)
(* row each.                                                               *)
Immutability ==
    /\ [](/\ \A m, n \in messages : m.id = n.id => m = n
          /\ \A c, d \in conversations : c.id = d.id => c = d)
    /\ [][/\ \A m \in messages : \A n \in messages' : n.id = m.id => n = m
          /\ \A c \in conversations : \A d \in conversations' :
                d.id = c.id => [d EXCEPT !.updated_at = c.updated_at] = c
         ]_vars

(* a conversation that was updated after its creation and holds a user     *)
(* message and an assistant message written at different times             *)
ImmutabilityWitness ==
    /\ resp = NoResp
    /\ \E c \in conversations :
          /\ c.updated_at > c.created_at
          /\ \E m, n \in MessagesOf(messages, c.id) :
                /\ m.role = "user" /\ n.role = "assistant"
                /\ m.created_at < n.created_at


(* C17. A successful send_message returns the backend's output and the id  *)
(* of the assistant message that this same request persisted in the        *)
(* requested conversation: the request that ends with the response got     *)
(* that text from the backend, wrote the message with that id after its    *)
(* own user message, and the message is an assistant message of the        *)
(* conversation whose content is the text returned.                        *)
SendReturnsItsReply ==
    [][SendCompleted
          => \E r \in BagToSet(inflight) :
                /\ inflight' = inflight (-) SetToBag({r})
                /\ r.conv = resp'.conv /\ r.user = resp'.user
                /\ resp'.text = r.reply /\ r.reply \in Replies
                /\ resp'.msg_id = r.amsg
                /\ r.amsg > r.umsg
                /\ pairOf[r.amsg] = r.umsg
                /\ \E m \in messages' :
                      /\ m.id = resp'.msg_id
                      /\ m.conversation_id = resp'.conv
                      /\ m.role = "assistant"
                      /\ m.content = resp'.text
                /\ \E m \in messages' :
                      /\ m.id = r.umsg
                      /\ m.conversation_id = resp'.conv
                      /\ m.role = "user"
                      /\ m.content = r.text
      ]_vars

(* a send_message returns the id of its reply, written after another       *)
(* request's messages came between its own two                             *)
SendReturnsItsReplyWitness ==
    /\ resp.op = "send"
    /\ resp.kind = "OK"
    /\ resp.msg_id \in DOMAIN pairOf
    /\ pairOf[resp.msg_id] + 1 < resp.msg_id


(* the send_message requests under way on conversation cid *)
RequestsOn(cid) == {r \in BagToSet(inflight) : r.conv = cid}

(* C18. When the send_message requests on a conversation, run in parallel, *)
(* have all ended and all succeeded, k of them, the conversation holds     *)
(* exactly 2k messages: k user messages and k assistant messages, each     *)
(* assistant message the reply of a different user message of the          *)
(* conversation and after it in the order get_conversation returns, with   *)
(* the texts and replies of the k calls.                                   *)
ConcurrentSendsComplete ==
    \A c \in conversations :
        (RequestsOn(c.id) = {} /\ AllSucceeded(calls[c.id]))
            => LET M == MessagesOf(messages, c.id)
                   U == {m \in M : m.role = "user"}
                   A == {m \in M : m.role = "assistant"}
                   s == GetResponse(conversations, messages, c.user_id, c.id).msgs
                   k == Len(calls[c.id])
               IN  /\ Cardinality(M) = 2 * k
                   /\ Len(s) = 2 * k
                   /\ Cardinality(U) = k /\ Cardinality(A) = k
                   /\ \A a \in A :
                        /\ a.id \in DOMAIN pairOf
                        /\ \E u \in U :
                              /\ u.id = pairOf[a.id]
                              /\ PositionOf(s, u.id) >= 1
                              /\ PositionOf(s, u.id) < PositionOf(s, a.id)
                              /\ \E i \in 1..k : calls[c.id][i] =
                                    [text |-> u.content, reply |-> a.content]
                   /\ \A a, b \in A : pairOf[a.id] = pairOf[b.id] => a = b
                   /\ \A i \in 1..k : \E a \in A, u \in U :
                        /\ u.id = pairOf[a.id]
                        /\ calls[c.id][i] = [text |-> u.content, reply |-> a.content]

(* two send_message requests that ran in parallel on one conversation have *)
(* both succeeded: both user messages were written before either reply     *)
ConcurrentSendsWitness ==
    /\ inflight = EmptyBag
    /\ resp = NoResp
    /\ \E c \in conversations :
          /\ Len(calls[c.id]) = 2
          /\ AllSucceeded(calls[c.id])
          /\ \E a, b \in MessagesOf(messages, c.id) :
                /\ a.role = "assistant" /\ b.role = "assistant" /\ a # b
                /\ pairOf[a.id] < b.id /\ pairOf[b.id] < a.id
                /\ pairOf[a.id] + 1 < a.id /\ pairOf[b.id] + 1 < b.id


(* C19. In every reachable state no two users share a username and no two  *)
(* users share an email, also when two register requests with the same     *)
(* username or email both pass the existence check before either inserts.  *)
UniqueIdentities ==
    \A u, v \in users :
        u # v => /\ profile[u].username # profile[v].username
                 /\ profile[u].email # profile[v].email

(* of two register requests with one username and different emails that    *)
(* both passed the existence check, one has inserted its user and the      *)
(* other is about to insert                                                *)
UniqueIdentitiesWitness ==
    /\ resp = NoResp
    /\ \E r \in BagToSet(registering) : \E u \in users :
          /\ profile[u].username = r.username
          /\ profile[u].email # r.email


Rank(pc) ==
    CASE pc = "insert_user" -> 1
      [] pc = "refresh_user" -> 2
      [] pc = "history" -> 3
      [] pc = "generate" -> 4
      [] pc = "insert_asst" -> 5
      [] pc = "refresh_asst" -> 6
      [] pc = "touch" -> 7

(* the phase a request is in before the statement at pc *)
Phase(pc) ==
    IF Rank(pc) = 1 THEN "Owned"
    ELSE IF Rank(pc) <= 4 THEN "UserTurnPersisted"
    ELSE IF Rank(pc) = 5 THEN "GenerationAttempted"
    ELSE "AssistantTurnPersisted"

(* request r runs a statement in this step *)
Moves(r) == CopiesIn(r, inflight') < CopiesIn(r, inflight)

(* request r2 is where a request stands after this step *)
Arrives(r2) == CopiesIn(r2, inflight') > CopiesIn(r2, inflight)

(* C21. Each send_message request passes through Owned, UserTurnPersisted, *)
(* GenerationAttempted in that order, one statement at a time and never    *)
(* backwards, so the backend is called at most once; it begins with the    *)
(* ownership check passed, persists exactly one user message once that     *)
(* check has passed and at most one assistant message, and ends either     *)
(* with its assistant turn persisted and a successful response or Failed   *)
(* with the generation error, in no other way.                             *)
RequestPhases ==
    [][/\ \A r2 \in BagToSet(inflight') :
            (Arrives(r2) /\ \A r \in BagToSet(inflight) : ~Moves(r))
                => /\ Phase(r2.pc) = "Owned"
                   /\ OwnedConversation(conversations, r2.conv, r2.user) # {}
                   /\ r2.umsg = 0 /\ r2.amsg = 0
       /\ \A r \in BagToSet(inflight) :
            Moves(r)
                => \/ /\ \E r2 \in BagToSet(inflight') :
                            /\ Arrives(r2)
                            /\ Rank(r2.pc) = Rank(r.pc) + 1
                            /\ r2.user = r.user /\ r2.conv = r.conv
                            /\ r2.text = r.text
                            /\ r.umsg # 0 => r2.umsg = r.umsg
                            /\ r.amsg # 0 => r2.amsg = r.amsg
                            /\ IF r.pc = "insert_user"
                               THEN messages' = messages \cup
                                       {[id |-> r2.umsg, conversation_id |-> r.conv,
                                         role |-> "user", content |-> r.text,
                                         created_at |-> now]}
                                    /\ r2.umsg \notin {m.id : m \in messages}
                               ELSE IF r.pc = "insert_asst"
                               THEN messages' = messages \cup
                                       {[id |-> r2.amsg, conversation_id |-> r.conv,
                                         role |-> "assistant", content |-> r.reply,
                                         created_at |-> now]}
                                    /\ r2.amsg \notin {m.id : m \in messages}
                               ELSE messages' = messages
                      /\ resp' = NoResp
                   \/ /\ \A r2 \in BagToSet(inflight') : ~Arrives(r2)
                      /\ Phase(r.pc) = "UserTurnPersisted" /\ r.pc = "generate"
                      /\ resp'.op = "send" /\ resp'.kind = "GenerationError"
                      /\ messages' = messages
                      /\ r.umsg \in {m.id : m \in messages} /\ r.amsg = 0
                   \/ /\ \A r2 \in BagToSet(inflight') : ~Arrives(r2)
                      /\ Phase(r.pc) = "AssistantTurnPersisted" /\ r.pc = "touch"
                      /\ resp'.op = "send" /\ resp'.kind = "OK"
                      /\ messages' = messages
                      /\ r.umsg \in {m.id : m \in messages}
                      /\ r.amsg \in {m.id : m \in messages}
       /\ \A m \in messages' \ messages :
            \E r \in BagToSet(inflight) :
                Moves(r) /\ r.pc \in {"insert_user", "insert_asst"}
      ]_vars

(* the concatenation of a sequence of texts *)
RECURSIVE Concat(_)
Concat(texts) == IF texts = <<>> THEN <<>> ELSE texts[1] \o Concat(Tail(texts))

IsPrefix(s, t) == Len(s) <= Len(t) /\ SubSeq(t, 1, Len(s)) = s

(* the chunks the backend has emitted so far in the call in progress *)
Emitted == SubSeq(gen.chunks, 1, gen.pos)

(* C22. stream_response: at every instant of a call the consumer has       *)
(* received, in arrival order, the chunks emitted so far whose text is not *)
(* empty, so that what it received concatenates to the same text as what   *)
(* the backend emitted; a call that ends normally has delivered all the    *)
(* backend's text; when the backend raises after emitting j chunks the     *)
(* call ends with the streaming error after delivering what those j chunks *)
(* yielded; each step leaves what was received in place and adds at most   *)
(* one chunk, and nothing is delivered once the call has ended.            *)
StreamFaithful ==
    /\ [](/\ gen.received = SelectSeq(Emitted, LAMBDA text : text # <<>>)
          /\ Concat(gen.received) = Concat(Emitted)
          /\ gen.status = "done"
               => /\ ~gen.fails /\ gen.pos = Len(gen.chunks) /\ gen.error = ""
                  /\ Concat(gen.received) = Concat(gen.chunks)
          /\ gen.status = "failed"
               => /\ gen.fails /\ gen.pos = Len(gen.chunks)
                  /\ gen.error = StreamDetail)
    /\ [][/\ gen.status = "open"
               => /\ IsPrefix(gen.received, gen'.received)
                  /\ Len(gen'.received) <= Len(gen.received) + 1
                  /\ gen'.chunks = gen.chunks
          /\ gen.status \in {"done", "failed"}
               => gen'.status = "idle" /\ gen'.received = <<>>
         ]_vars

(* the backend raised after two chunks, one of them empty: the consumer has *)
(* the other one and the error                                             *)
StreamFaithfulWitness ==
    /\ gen.status = "failed"
    /\ Len(gen.chunks) = 2
    /\ <<>> \in Range(gen.chunks)
    /\ Len(gen.received) = 1

(* the lines of a prompt, each one followed by a newline *)
RECURSIVE EachThenNewline(_)
EachThenNewline(lines) ==
    IF lines = <<>> THEN <<>>
    ELSE lines[1] \o <<"\n">> \o EachThenNewline(Tail(lines))

(* C23. Prompt format: the turns are rendered one by one in the order of   *)
(* the history, each as the role with its first letter in upper case, a    *)
(* colon, a space and the content; the prompt handed to the backend is     *)
(* these lines separated by newlines, then a newline and "Assistant:",     *)
(* which for the empty history is a newline and "Assistant:" alone.        *)
PromptFormat ==
    LET h == gen.messages
        line(i) == <<Upper(h[i].role[1])>> \o Tail(h[i].role)
                     \o <<":", " ">> \o h[i].content
    IN  /\ Len(gen.formatted) <= Len(h)
        /\ \A i \in DOMAIN gen.formatted : gen.formatted[i] = line(i)
        /\ gen.status \in {"open", "done", "failed"}
             => /\ Len(gen.formatted) = Len(h)
                /\ gen.prompt =
                     (IF h = <<>> THEN <<"\n">>
                      ELSE EachThenNewline([i \in DOMAIN h |-> line(i)]))
                     \o <<"A", "s", "s", "i", "s", "t", "a", "n", "t", ":">>

(* a prompt was made of a user turn followed by an assistant turn *)
PromptFormatWitness ==
    /\ gen.status = "open"
    /\ Len(gen.messages) = 2
    /\ gen.messages[1].role = UserRole
    /\ gen.messages[2].role = AssistantRole
    /\ gen.messages[1].content # gen.messages[2].content

(* C24. Path conversation id: a send_message request is admitted exactly   *)
(* when the caller owns the conversation named in the path, whatever       *)
(* conversation_id its body carries; a refused request writes nothing;     *)
(* every message row written is written by a request in progress, into the *)
(* conversation of that request's path, which no user other than the       *)
(* caller owns.                                                            *)
PathConversationOnly ==
    [][/\ \A r2 \in BagToSet(inflight') :
            (Arrives(r2) /\ \A r \in BagToSet(inflight) : ~Moves(r))
                => OwnedConversation(conversations, r2.conv, r2.user) # {}
       /\ (resp = NoResp /\ resp'.op = "send" /\ resp'.kind = "NotFound")
            => /\ OwnedConversation(conversations, resp'.conv, resp'.user) = {}
               /\ messages' = messages /\ inflight' = inflight
       /\ \A m \in messages' \ messages :
            \E r \in BagToSet(inflight) :
                /\ Moves(r)
                /\ m.conversation_id = r.conv
                /\ OwnerOf(conversations, r.conv) \in {0, r.user}
      ]_vars

(* a request whose body names another user's conversation has written its *)
(* user message into the conversation of its path, which its caller owns  *)
PathConversationOnlyWitness ==
    \E r \in Requests :
        /\ r.body # r.conv
        /\ OwnerOf(conversations, r.body) \notin {0, r.user}
        /\ \E m \in messages :
            /\ m.id = r.umsg
            /\ m.conversation_id = r.conv
            /\ OwnerOf(conversations, m.conversation_id) = r.user

====
